---------------------------- MODULE Spec2Model ----------------------------
(***************************************************************************)
(* A model of the Mandelbrot explorer: fractal_engine.py (MandelbrotEngine *)
(* and mandelbrot_calculation), color_palette.py (ColorPalette) and the    *)
(* threading skeleton of main.py (FractalApp).                             *)
(*                                                                         *)
(* Numbers.  Python floats are modelled in two ways, both with explicit    *)
(* rounding:                                                               *)
(*   - plane coordinates (centre, bounds, z, c) are fixed point integers   *)
(*     in units of 1/Scale; a quotient is rounded by \div;                 *)
(*   - zoom and zoom factors, which range over [0.1, 1e15], are decimal    *)
(*     floating point records [m, e] of value m * 10^e with the mantissa   *)
(*     m kept in [Mant, 10*Mant) and truncated after every operation.      *)
(***************************************************************************)
EXTENDS Integers, Sequences, FiniteSets, TLC

VARIABLES
    \* MandelbrotEngine (fractal_engine.py:94-121)
    width, height, x_center, y_center, zoom, aspect_ratio,
    max_iter, last_params, cached_result, render_count, total_pixels,
    \* the sequential caller of the engine: the last call and what it returned
    last, prev, nops,
    \* one run of mandelbrot_calculation, statement by statement
    calc,
    \* ColorPalette (color_palette.py:45-57)
    current_palette_index, current_palette, color_cache, animation_time,
    \* FractalApp (main.py:50-60): the flag, the displayed bitmap, the lock,
    \* the render threads started so far and the position of the main loop
    rendering, current_surface, render_lock, threads, mainpc

engineVars == <<width, height, x_center, y_center, zoom, aspect_ratio,
                max_iter, last_params, cached_result, render_count, total_pixels>>
paletteVars == <<current_palette_index, current_palette, color_cache, animation_time>>
appVars == <<rendering, current_surface, render_lock, threads, mainpc>>
vars == <<engineVars, last, prev, nops, calc, paletteVars, appVars>>

---------------------------------------------------------------------------
(* Bounds of the model *)

\* fixed point resolution: a plane coordinate v is the integer v * Scale
Scale == 1000
\* decimal floating point precision: mantissas lie in [Mant, 10 * Mant)
Mant == 1000
\* largest window side, in pixels
MaxDim == 3
\* largest max_iter handed to mandelbrot_calculation on its own
MaxCalcIter == 23

---------------------------------------------------------------------------
(* Program constants *)

min_iter == 50
max_max_iter == 2000
\* the periodicity shortcut is tried once n exceeds this
PeriodAfter == 20

---------------------------------------------------------------------------
(* Arithmetic *)

Abs(v) == IF v < 0 THEN -v ELSE v
Min(a, b) == IF a < b THEN a ELSE b
Max(a, b) == IF a > b THEN a ELSE b

RECURSIVE Pow10(_)
Pow10(n) == IF n <= 0 THEN 1 ELSE 10 * Pow10(n - 1)

\* the float of value m * 10^e (m > 0), mantissa truncated into [Mant, 10*Mant)
RECURSIVE FNorm(_, _)
FNorm(m, e) ==
    IF m < Mant THEN FNorm(m * 10, e - 1)
    ELSE IF m >= 10 * Mant THEN FNorm(m \div 10, e + 1)
    ELSE [m |-> m, e |-> e]

\* a * b on floats
FMul(a, b) == FNorm(a.m * b.m, a.e + b.e)

\* a / b on floats
FDiv(a, b) == FNorm((a.m * 10000) \div b.m, a.e - b.e - 4)

\* a + b on positive floats
FAdd(a, b) ==
    LET hi == IF a.e >= b.e THEN a ELSE b
        lo == IF a.e >= b.e THEN b ELSE a
        d  == hi.e - lo.e
    IN  IF d > 5 THEN hi
        ELSE FNorm(hi.m * Pow10(d) + lo.m, lo.e)

\* a < b, a > b on (normalised) floats
FLess(a, b) == IF a.e # b.e THEN a.e < b.e ELSE a.m < b.m
FGreater(a, b) == FLess(b, a)

\* a float as a fixed point number, truncated
ToFix(f) ==
    IF f.e >= 0 THEN f.m * Scale * Pow10(f.e)
    ELSE IF -f.e > 9 THEN 0
    ELSE (f.m * Scale) \div Pow10(-f.e)

\* ceil(10^(k/30) * 1000) for k = 0 .. 29: the thirtieths of a decade
Log10Table ==
    <<1000, 1080, 1166, 1259, 1360, 1468, 1585, 1712, 1848, 1996,
      2155, 2327, 2512, 2713, 2929, 3163, 3415, 3687, 3982, 4299,
      4642, 5012, 5412, 5844, 6310, 6813, 7357, 7944, 8577, 9262>>

\* floor(np.log10(f) * 30) for a float f >= 1
Log10Times30(f) ==
    LET g == IF f.m >= 10000 THEN [m |-> f.m \div 10, e |-> f.e + 1] ELSE f
        k == CHOOSE k \in 1..30 :
                /\ Log10Table[k] <= g.m
                /\ \A j \in (k+1)..30 : Log10Table[j] > g.m
    IN  30 * (g.e + 3) + (k - 1)

---------------------------------------------------------------------------
(* mandelbrot_calculation (fractal_engine.py:26-70) *)

\* abs(z) > 2.0
Escaped(z) ==
    \/ Abs(z.re) > 2 * Scale
    \/ Abs(z.im) > 2 * Scale
    \/ z.re * z.re + z.im * z.im > 4 * Scale * Scale

\* abs(z) < 1e-10: below the fixed point resolution, so z is zero
AbsTiny(z) == z.re = 0 /\ z.im = 0

\* z * z + c
Recurrence(z, c) ==
    [re |-> (z.re * z.re - z.im * z.im) \div Scale + c.re,
     im |-> (2 * z.re * z.im) \div Scale + c.im]

\* x = x_min + (x_max - x_min) * j / (width - 1)
PixelCoord(lo, hi, j, n) == lo + ((hi - lo) * j) \div (n - 1)

\* range(max_iter + 1): one pass too many
LoopRangeInclusive(maxit) == 0..maxit

\* the indices the per-pixel loop runs through: range(max_iter)
LoopRange(maxit) == 0..(maxit - 1)

\* a pass that updates z before it tests for divergence
LoopBodyUpdateFirst(z, c, n, maxit) ==
    LET z2 == Recurrence(z, c)
    IN  IF Escaped(z2) THEN [z |-> z2, exit |-> "escape", value |-> n]
        ELSE IF n > PeriodAfter /\ AbsTiny(z2)
        THEN [z |-> z2, exit |-> "period", value |-> maxit]
        ELSE [z |-> z2, exit |-> "none", value |-> 0]

\* one pass through the body of `for n in range(max_iter)` (lines 56-66):
\* exit says how the pass left the loop, value what it wrote to result[i, j]
LoopBody(z, c, n, maxit) ==
    IF Escaped(z) THEN [z |-> z, exit |-> "escape", value |-> n]
    ELSE LET z2 == Recurrence(z, c)
         IN  IF n > PeriodAfter /\ AbsTiny(z2)
             THEN [z |-> z2, exit |-> "period", value |-> maxit]
             ELSE [z |-> z2, exit |-> "none", value |-> 0]

\* the state of the per-pixel loop before its first pass
LoopStart == [z |-> [re |-> 0, im |-> 0], n |-> 0, exit |-> "none", value |-> 0]

\* the loop with its else clause (lines 55-68) taken one pass further; a
\* loop that has ended stays as it is
LoopStep(st, c, maxit) ==
    IF st.exit # "none" THEN st
    ELSE IF st.n \notin LoopRange(maxit)
    THEN [st EXCEPT !.exit = "else", !.value = maxit]
    ELSE LET r == LoopBody(st.z, c, st.n, maxit)
         IN  [z |-> r.z, n |-> IF r.exit = "none" THEN st.n + 1 ELSE st.n,
              exit |-> r.exit, value |-> r.value]

\* four and sixteen passes further
LoopStep4(st, c, maxit) ==
    LoopStep(LoopStep(LoopStep(LoopStep(st, c, maxit), c, maxit), c, maxit), c, maxit)
LoopStep16(st, c, maxit) ==
    LoopStep4(LoopStep4(LoopStep4(LoopStep4(st, c, maxit), c, maxit), c, maxit), c, maxit)

\* the loop run to its end: the value written to result[i, j] and the way
\* the loop ended
RECURSIVE PixelLoop(_, _, _)
PixelLoop(st, c, maxit) ==
    IF st.exit # "none" THEN st ELSE PixelLoop(LoopStep16(st, c, maxit), c, maxit)

Pixels(h, w) == (0..(h - 1)) \X (0..(w - 1))

Zero == [re |-> 0, im |-> 0]

\* the plane coordinate of pixel (i, j)
PixelC(h, w, b, p) ==
    [re |-> PixelCoord(b[1], b[2], p[2], w), im |-> PixelCoord(b[3], b[4], p[1], h)]

\* lines 51-68 for the pixel of coordinate c
EscapeTime(c, maxit) == PixelLoop(LoopStart, c, maxit).value

\* the grid mandelbrot_calculation returns; with a one pixel axis the
\* coordinate mapping divides by zero and the call raises
mandelbrot_calculation(h, w, b, maxit) ==
    IF h = 1 \/ w = 1 THEN [ok |-> FALSE, grid |-> <<>>]
    ELSE [ok |-> TRUE,
          grid |-> [p \in Pixels(h, w) |->
                       EscapeTime(PixelC(h, w, b, p), maxit)]]

---------------------------------------------------------------------------
(* SpecCalc: one call of mandelbrot_calculation, one loop pass per step *)

\* the regions of the plane the call is tried on, (x_min, x_max, y_min, y_max)
CalcBounds ==
    { <<-2 * Scale, Scale, -Scale, Scale>>,
      <<-Scale, Scale, -Scale, Scale>>,
      <<2 * Scale, 3 * Scale, 2 * Scale, 3 * Scale>>,
      <<0, 0, 0, 0>>,
      <<-Scale, 0, 0, Scale \div 2>> }

NoCalc == [pc |-> "off"]

CalcInit ==
    \E h \in 2..MaxDim, w \in 2..MaxDim, b \in CalcBounds, m \in 0..MaxCalcIter :
        calc = [pc |-> "pixel", height |-> h, width |-> w, bounds |-> b,
                max_iter |-> m,
                result |-> [p \in Pixels(h, w) |-> 0],
                exit |-> [p \in Pixels(h, w) |-> "none"],
                todo |-> Pixels(h, w),
                p |-> <<0, 0>>, c |-> Zero, z |-> Zero, n |-> 0]

\* the pixels are taken in row-major order (the pixels share no state)
NextPixel(todo) ==
    CHOOSE p \in todo : \A q \in todo :
        p[1] < q[1] \/ (p[1] = q[1] /\ p[2] <= q[2])

\* lines 45-52: take a pixel, map it to c, start z at 0
CalcPixel ==
    /\ calc.pc = "pixel"
    /\ UNCHANGED <<engineVars, last, prev, nops, paletteVars, appVars>>
    /\ calc.todo # {}
    /\ LET p == NextPixel(calc.todo)
       IN  calc' = [calc EXCEPT !.pc = "loop", !.p = p, !.todo = @ \ {p},
                                !.c = PixelC(calc.height, calc.width, calc.bounds, p),
                                !.z = Zero, !.n = 0]

\* lines 55-66: one pass of the loop
CalcLoop ==
    /\ calc.pc = "loop"
    /\ UNCHANGED <<engineVars, last, prev, nops, paletteVars, appVars>>
    /\ calc.n \in LoopRange(calc.max_iter)
    /\ LET r == LoopBody(calc.z, calc.c, calc.n, calc.max_iter)
       IN  IF r.exit = "none"
           THEN calc' = [calc EXCEPT !.z = r.z, !.n = @ + 1]
           ELSE calc' = [calc EXCEPT !.z = r.z, !.pc = "pixel",
                                     !.result[calc.p] = r.value,
                                     !.exit[calc.p] = r.exit]

\* lines 67-68: the loop ran out
CalcElse ==
    /\ calc.pc = "loop"
    /\ UNCHANGED <<engineVars, last, prev, nops, paletteVars, appVars>>
    /\ calc.n \notin LoopRange(calc.max_iter)
    /\ calc' = [calc EXCEPT !.pc = "pixel",
                            !.result[calc.p] = calc.max_iter,
                            !.exit[calc.p] = "else"]

\* line 70
CalcReturn ==
    /\ calc.pc = "pixel"
    /\ UNCHANGED <<engineVars, last, prev, nops, paletteVars, appVars>>
    /\ calc.todo = {}
    /\ calc' = [calc EXCEPT !.pc = "done"]

---------------------------------------------------------------------------
(* MandelbrotEngine (fractal_engine.py:91-326) *)

None == <<>>

One == FNorm(1, 0)
Three == FNorm(3, 0)
\* the zoom limits of zoom_at_point: max_zoom = 1e15 and 0.1
max_zoom == FNorm(1, 15)
min_zoom == FNorm(1, -1)

\* width / height, as a fixed point number
AspectRatio(w, h) == (w * Scale) \div h

\* get_bounds() of an engine centred on (xc, yc) at zoom zm, aspect ratio ar
get_bounds(xc, yc, zm, ar) ==
    LET view_width == ToFix(FDiv(Three, zm))
        view_height == (view_width * Scale) \div ar
    IN  <<xc - view_width \div 2, xc + view_width \div 2,
          yc - view_height \div 2, yc + view_height \div 2>>

\* the cap computed from log10(zoom) in place of log10(zoom + 1)
adaptive_iterations_no_offset(zm) ==
    LET iter_count == min_iter + Log10Times30(zm)
    IN  Min(iter_count, max_max_iter)

\* adaptive_iterations(zoom)
adaptive_iterations(zm) ==
    LET iter_count == min_iter + Log10Times30(FAdd(zm, One))
    IN  Min(iter_count, max_max_iter)

\* the cap taken from max_iter alone
actual_iter_unadapted(mi, zm) == mi

\* actual_iter of generate(), line 177
actual_iter(mi, zm) == Min(mi, adaptive_iterations(zm))

\* the cache test with the test for a held grid inverted
CacheHitInverted(params, lp, cr) == params = lp /\ cr = None

\* the cache test of generate(), line 169
CacheHit(params, lp, cr) == params = lp /\ cr # None

\* the parameter tuple of generate(), lines 165-166
current_params == <<x_center, y_center, zoom, width, height, max_iter>>

\* the snapshot of the engine a call record keeps
Snapshot == [x_center |-> x_center, y_center |-> y_center, zoom |-> zoom,
             max_iter |-> max_iter, render_count |-> render_count,
             params |-> current_params, last_params |-> last_params,
             cached |-> cached_result # None]

Call(op, args, ret) == [op |-> op, args |-> args, pre |-> Snapshot, ret |-> ret]

EngineInit ==
    /\ width = MaxDim
    /\ height = MaxDim - 1
    /\ x_center = -(Scale \div 2)
    /\ y_center = 0
    /\ zoom = One
    /\ aspect_ratio = AspectRatio(MaxDim, MaxDim - 1)
    /\ max_iter = 100
    /\ last_params = None
    /\ cached_result = None
    /\ render_count = 0
    /\ total_pixels = MaxDim * (MaxDim - 1)

\* generate(), run to its end by one caller
Generate ==
    IF CacheHit(current_params, last_params, cached_result)
    THEN /\ last' = Call("generate", <<>>, [ok |-> TRUE, grid |-> cached_result])
         /\ UNCHANGED engineVars
    ELSE LET b == get_bounds(x_center, y_center, zoom, aspect_ratio)
             result == mandelbrot_calculation(height, width, b,
                                              actual_iter(max_iter, zoom))
         IN  /\ last' = Call("generate", <<>>, result)
             /\ IF result.ok
                THEN /\ last_params' = current_params
                     /\ cached_result' = result.grid
                     /\ render_count' = render_count + 1
                ELSE UNCHANGED <<last_params, cached_result, render_count>>
             /\ UNCHANGED <<width, height, x_center, y_center, zoom,
                            aspect_ratio, max_iter, total_pixels>>

\* the clamp without its lower limit
ClampZoomNoFloor(z) == IF FGreater(z, max_zoom) THEN max_zoom ELSE z

\* the zoom zoom_at_point sets: the product, clamped to [0.1, max_zoom]
ClampZoom(z) ==
    IF FGreater(z, max_zoom) THEN max_zoom
    ELSE IF FLess(z, min_zoom) THEN min_zoom
    ELSE z

\* zoom_at_point adding the factor to zoom instead of multiplying by it
zoom_at_point_additive(screen_x, screen_y, zoom_factor) ==
    LET b == get_bounds(x_center, y_center, zoom, aspect_ratio)
        math_x == b[1] + ((b[2] - b[1]) * screen_x) \div width
        math_y == b[3] + ((b[4] - b[3]) * screen_y) \div height
    IN  /\ x_center' = math_x
        /\ y_center' = math_y
        /\ zoom' = ClampZoom(FAdd(zoom, zoom_factor))
        /\ UNCHANGED <<width, height, aspect_ratio, max_iter, last_params,
                       cached_result, render_count, total_pixels>>

\* zoom_at_point(screen_x, screen_y, zoom_factor)
zoom_at_point(screen_x, screen_y, zoom_factor) ==
    LET b == get_bounds(x_center, y_center, zoom, aspect_ratio)
        math_x == b[1] + ((b[2] - b[1]) * screen_x) \div width
        math_y == b[3] + ((b[4] - b[3]) * screen_y) \div height
    IN  /\ x_center' = math_x
        /\ y_center' = math_y
        /\ zoom' = ClampZoom(FMul(zoom, zoom_factor))
        /\ UNCHANGED <<width, height, aspect_ratio, max_iter, last_params,
                       cached_result, render_count, total_pixels>>

\* pan(dx, dy)
pan(dx, dy) ==
    LET b == get_bounds(x_center, y_center, zoom, aspect_ratio)
        pixel_width == (b[2] - b[1]) \div width
        pixel_height == (b[4] - b[3]) \div height
    IN  /\ x_center' = x_center + dx * pixel_width
        /\ y_center' = y_center + dy * pixel_height
        /\ UNCHANGED <<width, height, zoom, aspect_ratio, max_iter, last_params,
                       cached_result, render_count, total_pixels>>

\* reset_view()
reset_view ==
    /\ x_center' = -(Scale \div 2)
    /\ y_center' = 0
    /\ zoom' = One
    /\ max_iter' = 100
    /\ last_params' = None
    /\ cached_result' = None
    /\ UNCHANGED <<width, height, aspect_ratio, render_count, total_pixels>>

\* resize(width, height)
resize(w, h) ==
    /\ width' = w
    /\ height' = h
    /\ aspect_ratio' = AspectRatio(w, h)
    /\ total_pixels' = w * h
    /\ last_params' = None
    /\ cached_result' = None
    /\ UNCHANGED <<x_center, y_center, zoom, max_iter, render_count>>

\* the max_iter increase_iterations(factor) sets
IncreasedIter(mi, factor) == Min(mi + factor, max_max_iter)

\* the max_iter decrease_iterations(factor) sets
DecreasedIter(mi, factor) == Max(mi - factor, min_iter)

\* increase_iterations(factor)
increase_iterations(factor) ==
    /\ max_iter' = IncreasedIter(max_iter, factor)
    /\ last_params' = None
    /\ cached_result' = None
    /\ UNCHANGED <<width, height, x_center, y_center, zoom, aspect_ratio,
                   render_count, total_pixels>>

\* decrease_iterations(factor)
decrease_iterations(factor) ==
    /\ max_iter' = DecreasedIter(max_iter, factor)
    /\ last_params' = None
    /\ cached_result' = None
    /\ UNCHANGED <<width, height, x_center, y_center, zoom, aspect_ratio,
                   render_count, total_pixels>>

---------------------------------------------------------------------------
(* ColorPalette (color_palette.py:42-369) *)

\* list(PaletteType), lines 29-40 and 47
palettes ==
    <<"Rainbow", "Ocean Waves", "Fire & Magma", "Electric Plasma",
      "Cosmic Nebula", "Vintage Sepia", "Neon Dreams", "Ice Crystal",
      "Sunset Glow", "Matrix Code">>

\* the capacity of color_cache
cache_size == 1000
\* animation_speed = 0.02, in hundredths
animation_speed == 2
\* 2 * pi, in hundredths: animation_time wraps once it exceeds this
TwoPi == 628

EmptyMap == [k \in {} |-> 0]

\* the colour of a point of the set, line 306
Black == [palette |-> "none", iterations |-> 0, max_iterations |-> 0, time |-> 0]

\* the colour a palette function returns: a value that stands for the
\* function chosen and the arguments and animation phase it is given
PaletteColor(pal, iterations, max_iterations, time) ==
    [palette |-> pal, iterations |-> iterations,
     max_iterations |-> max_iterations, time |-> time]

\* the test before the insertion with the bound included
CacheHasRoomInclusive(cache) == Cardinality(DOMAIN cache) <= cache_size

\* line 330: len(self.color_cache) < self.cache_size
CacheHasRoom(cache) == Cardinality(DOMAIN cache) < cache_size

\* lines 304-327 of get_color: the colour computed on a cache miss
ComputeColor(pal, iterations, max_iterations, time) ==
    IF iterations >= max_iterations THEN Black
    ELSE PaletteColor(pal, iterations, max_iterations, time)

\* cache_key of get_color, lines 297-298
CacheKey(iterations, max_iterations) ==
    <<iterations, max_iterations, current_palette_index, animation_time>>

PaletteInit ==
    /\ current_palette_index = 0
    /\ current_palette = palettes[1]
    /\ color_cache = EmptyMap
    /\ animation_time = 0

\* next_palette()
next_palette ==
    /\ current_palette_index' = (current_palette_index + 1) % Len(palettes)
    /\ current_palette' = palettes[((current_palette_index + 1) % Len(palettes)) + 1]
    /\ color_cache' = EmptyMap
    /\ UNCHANGED animation_time

\* the animation time apply_colors moves to, lines 349-351
Tick(t) == IF t + animation_speed > TwoPi THEN 0 ELSE t + animation_speed

\* colored_data of apply_colors, lines 364-367
Bitmap(data, color_map) == [p \in DOMAIN data |-> color_map[data[p]]]

SetMax(S) == CHOOSE v \in S : \A u \in S : u <= v
SetMin(S) == CHOOSE v \in S : \A u \in S : v <= u
Values(data) == { data[p] : p \in DOMAIN data }

\* get_color, lines 297-333, run to its end by one caller on the cache
\* `cache`: the colour returned and the cache left behind
GetColor(cache, iterations, max_iterations, index, pal, time) ==
    LET key == <<iterations, max_iterations, index, time>>
        color == ComputeColor(pal, iterations, max_iterations, time)
    IN  IF key \in DOMAIN cache
        THEN [color |-> cache[key], cache |-> cache]
        ELSE [color |-> color,
              cache |-> IF CacheHasRoom(cache) THEN (key :> color) @@ cache
                        ELSE cache]

\* the loop of apply_colors, lines 360-361, over the unique values `todo` in
\* ascending order: the colour map built and the cache left behind
RECURSIVE ColorLoop(_, _, _, _, _, _, _)
ColorLoop(cache, color_map, todo, maxv, index, pal, time) ==
    IF todo = {} THEN [color_map |-> color_map, cache |-> cache]
    ELSE LET v == SetMin(todo)
             r == GetColor(cache, v, maxv, index, pal, time)
         IN  ColorLoop(r.cache, (v :> r.color) @@ color_map, todo \ {v},
                       maxv, index, pal, time)

\* get_color(iterations, max_iterations) on the palette
get_color(iterations, max_iterations) ==
    LET r == GetColor(color_cache, iterations, max_iterations,
                      current_palette_index, current_palette, animation_time)
    IN  /\ color_cache' = r.cache
        /\ last' = Call("get_color", <<iterations, max_iterations>>, r.color)
        /\ UNCHANGED <<current_palette_index, current_palette, animation_time>>

\* apply_colors(fractal_data) on the palette, lines 345-369
apply_colors(data) ==
    LET time == Tick(animation_time)
        r == ColorLoop(color_cache, EmptyMap, Values(data), SetMax(Values(data)),
                       current_palette_index, current_palette, time)
    IN  /\ animation_time' = time
        /\ color_cache' = r.cache
        /\ last' = Call("apply_colors", <<data>>, Bitmap(data, r.color_map))
        /\ UNCHANGED <<current_palette_index, current_palette>>

---------------------------------------------------------------------------
(* The ten palette functions (color_palette.py:76-283), in fixed point:
   t, intensity, hue, saturation and value in units of 1/Scale, the animation
   time in hundredths, angles in 1/10000 of a radian *)

\* np.pi, in 1/10000 of a radian
Pi4 == 31416
\* the largest channel value
ChannelMax == 255

\* the decimal n/d
Frac(n, d) == (n * Scale) \div d
\* a * b of two fixed point numbers
Mul(a, b) == (a * b) \div Scale
\* int(x) of a fixed point number: truncation towards zero
Trunc(x) == IF x >= 0 THEN x \div Scale ELSE -((-x) \div Scale)
\* animation_time as a fixed point number
TimeFix(time) == (time * Scale) \div 100

\* the angle t * np.pi * k + animation_time * m
Angle(t, k, time, m) == (t * k * Pi4) \div Scale + time * m * 100

\* np.sin of an angle >= 0, by Bhaskara's rational approximation on the half
\* wave, kept within [-1, 1]
Sin(a) ==
    LET r == a % (2 * Pi4)
        pm == Pi4 \div 10
        xm == (IF r > Pi4 THEN r - Pi4 ELSE r) \div 10
        y == xm * (pm - xm)
        val == Max(0, Min(Scale, (16 * y) \div ((5 * pm * pm - 4 * y) \div Scale)))
    IN  IF r > Pi4 THEN -val ELSE val

\* a channel without the upper limit
ClampChannelOpen(x) == Max(0, x)

\* max(0, min(255, x))
ClampChannel(x) == Max(0, Min(ChannelMax, x))

Clamp3(red, green, blue) ==
    <<ClampChannel(red), ClampChannel(green), ClampChannel(blue)>>

\* min(1.0, x) dropped
Min1Open(x) == x

\* min(1.0, x)
Min1(x) == Min(Scale, x)

\* colorsys.hsv_to_rgb(h, s, v) followed by int(c * 255), lines 88-89
hsv_to_rgb(h, s, v) ==
    LET i == (h * 6) \div Scale
        f == h * 6 - i * Scale
        p == Mul(v, Scale - s)
        q == Mul(v, Scale - Mul(s, f))
        t == Mul(v, Scale - Mul(s, Scale - f))
        rgb == IF s = 0 THEN <<v, v, v>>
               ELSE CASE i % 6 = 0 -> <<v, t, p>>
                      [] i % 6 = 1 -> <<q, v, p>>
                      [] i % 6 = 2 -> <<p, v, t>>
                      [] i % 6 = 3 -> <<p, q, v>>
                      [] i % 6 = 4 -> <<t, p, v>>
                      [] OTHER     -> <<v, p, q>>
    IN  <<Trunc(rgb[1] * ChannelMax), Trunc(rgb[2] * ChannelMax),
          Trunc(rgb[3] * ChannelMax)>>

\* lines 91-107
rainbow_color(t, intensity, time) ==
    LET hue == (t * 6 + TimeFix(time)) % Scale
        saturation == Frac(8, 10) + Mul(Frac(2, 10), Sin(Angle(t, 4, time, 2)))
        value == Mul(intensity,
                     Frac(5, 10) + Mul(Frac(5, 10), Sin(Angle(t, 2, time, 0))))
    IN  hsv_to_rgb(hue, saturation, value)

\* lines 109-138
ocean_color(t, intensity, time) ==
    IF t < Frac(1, 10)
    THEN Clamp3(0,
                Trunc(5 * Scale + Mul(t * 300, intensity)),
                Trunc(10 * Scale + Mul(t * 500, intensity)))
    ELSE IF t < Frac(6, 10)
    THEN LET wave == Sin(Angle(t, 8, time, 3))
         IN  Clamp3(Trunc(wave * 20),
                    Trunc(30 * Scale + Mul((t - Frac(1, 10)) * 300, intensity)
                          + wave * 40),
                    Trunc(50 * Scale + Mul((t - Frac(1, 10)) * 400, intensity)
                          + wave * 30))
    ELSE LET foam == Sin(Angle(t, 16, time, 5))
         IN  Clamp3(Trunc(100 * Scale + foam * 40),
                    Trunc(200 * Scale + (t - Frac(6, 10)) * 50 + foam * 30),
                    Trunc(150 * Scale + (t - Frac(6, 10)) * 200 + foam * 50))

\* lines 140-176
fire_color(t, intensity, time) ==
    LET flicker == Mul(Sin(Angle(t, 12, time, 8)), Frac(1, 10))
        adjusted_t == Max(0, Min(Scale, t + flicker))
    IN  IF adjusted_t < Frac(2, 10)
        THEN Clamp3(Trunc(20 * Scale + Mul(adjusted_t * 600, intensity)),
                    Trunc(Mul(adjusted_t * 100, intensity)),
                    0)
        ELSE IF adjusted_t < Frac(5, 10)
        THEN Clamp3(Trunc(120 * Scale
                          + Mul((adjusted_t - Frac(2, 10)) * 400, intensity)),
                    Trunc(20 * Scale
                          + Mul((adjusted_t - Frac(2, 10)) * 600, intensity)),
                    Trunc(Mul((adjusted_t - Frac(2, 10)) * 100, intensity)))
        ELSE IF adjusted_t < Frac(8, 10)
        THEN Clamp3(Trunc(200 * Scale
                          + Mul((adjusted_t - Frac(5, 10)) * 150, intensity)),
                    Trunc(120 * Scale
                          + Mul((adjusted_t - Frac(5, 10)) * 400, intensity)),
                    Trunc(30 * Scale
                          + Mul((adjusted_t - Frac(5, 10)) * 200, intensity)))
        ELSE Clamp3(255,
                    Trunc(220 * Scale
                          + Mul((adjusted_t - Frac(8, 10)) * 175, intensity)),
                    Trunc(60 * Scale
                          + Mul((adjusted_t - Frac(8, 10)) * 700, intensity)))

\* lines 178-197
electric_color(t, intensity, time) ==
    LET pulse == Mul(Sin(Angle(t, 6, time, 10)), Frac(3, 10))
        spark == Mul(Sin(Angle(t, 20, time, 15)), Frac(1, 10))
        base_hue == Frac(6, 10) + Mul(t, Frac(3, 10)) + Mul(pulse, Frac(1, 10))
        saturation == Frac(9, 10) + Mul(spark, Frac(1, 10))
        value == Mul(intensity,
                     Frac(3, 10) + Mul(Frac(7, 10), t) + Mul(pulse, Frac(3, 10)))
    IN  hsv_to_rgb(base_hue % Scale, Min1(saturation), Min1(value))

\* lines 199-230
cosmic_color(t, intensity, time) ==
    LET swirl == Mul(Sin(Angle(t, 3, time, 2)), Frac(2, 10))
        twinkle == Mul(Sin(Angle(t, 25, time, 12)), Frac(1, 10))
    IN  IF t < Frac(3, 10)
        THEN Clamp3(Trunc(20 * Scale + Mul(t * 200, intensity) + twinkle * 50),
                    Trunc(5 * Scale + Mul(t * 50, intensity)),
                    Trunc(40 * Scale + Mul(t * 400, intensity) + swirl * 60))
        ELSE IF t < Frac(7, 10)
        THEN Clamp3(Trunc(60 * Scale + Mul((t - Frac(3, 10)) * 400, intensity)
                          + swirl * 80),
                    Trunc(20 * Scale + Mul((t - Frac(3, 10)) * 200, intensity)
                          + twinkle * 40),
                    Trunc(120 * Scale + Mul((t - Frac(3, 10)) * 300, intensity)))
        ELSE Clamp3(Trunc(200 * Scale + Mul((t - Frac(7, 10)) * 180, intensity)),
                    Trunc(150 * Scale + Mul((t - Frac(7, 10)) * 300, intensity)),
                    Trunc(50 * Scale + Mul((t - Frac(7, 10)) * 400, intensity)
                          + twinkle * 100))

\* lines 232-239
vintage_color(t, intensity, time) ==
    LET base == Mul(t, intensity)
    IN  Clamp3(Trunc(100 * Scale + base * 120),
               Trunc(80 * Scale + base * 100),
               Trunc(50 * Scale + base * 60))

\* lines 241-246
neon_color(t, intensity, time) ==
    LET glow == Mul(Sin(Angle(t, 8, time, 6)), Frac(2, 10))
        hue == (Mul(t, Frac(8, 10)) + Mul(TimeFix(time), Frac(1, 10))) % Scale
    IN  hsv_to_rgb(hue, Scale,
                   Min1(Mul(intensity, Frac(7, 10) + Mul(Frac(3, 10), t) + glow)))

\* lines 248-258
ice_color(t, intensity, time) ==
    LET crystal == Mul(Sin(Angle(t, 15, time, 4)), Frac(1, 10))
        blue_base == 150 * Scale + Mul(t * 100, intensity) + crystal * 30
        red_base == 100 * Scale + Mul(t * 120, intensity) + crystal * 50
        green_base == 130 * Scale + Mul(t * 110, intensity) + crystal * 40
    IN  Clamp3(Trunc(red_base), Trunc(green_base), Trunc(blue_base))

\* lines 260-273
sunset_color(t, intensity, time) ==
    IF t < Frac(4, 10)
    THEN Clamp3(Trunc(255 * intensity),
                Trunc(120 * Scale + Mul(t * 300, intensity)),
                Trunc(30 * Scale + Mul(t * 100, intensity)))
    ELSE Clamp3(Trunc(200 * Scale + Mul((Scale - t) * 100, intensity)),
                Trunc(50 * Scale + Mul(t * 150, intensity)),
                Trunc(80 * Scale + Mul(t * 300, intensity)))

\* lines 275-283
matrix_color(t, intensity, time) ==
    LET digital == Mul(Sin(Angle(t, 30, time, 20)), Frac(2, 10))
    IN  Clamp3(Trunc(Mul(t * 50, intensity)),
               Trunc(50 * Scale + Mul(t * 200, intensity) + digital * 50),
               Trunc(Mul(t * 30, intensity)))

\* color_functions.get(self.current_palette, self.rainbow_color)(t, intensity),
\* lines 313-327
color_func(pal, t, intensity, time) ==
    CASE pal = palettes[1] -> rainbow_color(t, intensity, time)
      [] pal = palettes[2] -> ocean_color(t, intensity, time)
      [] pal = palettes[3] -> fire_color(t, intensity, time)
      [] pal = palettes[4] -> electric_color(t, intensity, time)
      [] pal = palettes[5] -> cosmic_color(t, intensity, time)
      [] pal = palettes[6] -> vintage_color(t, intensity, time)
      [] pal = palettes[7] -> neon_color(t, intensity, time)
      [] pal = palettes[8] -> ice_color(t, intensity, time)
      [] pal = palettes[9] -> sunset_color(t, intensity, time)
      [] pal = palettes[10] -> matrix_color(t, intensity, time)
      [] OTHER -> rainbow_color(t, intensity, time)

\* the integer square root of n >= 0, by bisection
RECURSIVE SqrtBetween(_, _, _)
SqrtBetween(n, lo, hi) ==
    IF hi - lo <= 1 THEN lo
    ELSE LET mid == (lo + hi) \div 2
         IN  IF mid * mid <= n THEN SqrtBetween(n, mid, hi)
             ELSE SqrtBetween(n, lo, mid)

\* np.sqrt(t) of a fixed point t in [0, 1]
Sqrt(t) == SqrtBetween(t * Scale, 0, Scale + 1)

\* the triple get_color computes on a miss, lines 304-327
ColorTriple(pal, iterations, max_iterations, time) ==
    IF iterations >= max_iterations THEN <<0, 0, 0>>
    ELSE LET t == (iterations * Scale) \div max_iterations
             intensity == Min(Scale, Mul(Sqrt(t), Frac(12, 10)))
         IN  color_func(pal, t, intensity, time)

---------------------------------------------------------------------------
(* FractalApp (main.py:29-272) *)

\* render_lock when nobody holds it, when the main loop holds it and when
\* render thread t holds it
Free == [owner |-> "none", id |-> 0]
HeldByMain == [owner |-> "main", id |-> 0]
HeldBy(t) == [owner |-> "render", id |-> t]

\* a render thread that start_render has just started
NewThread ==
    [pc |-> "gen_params", params |-> None, bounds |-> None, iter |-> 0,
     data |-> None, todo |-> {}, maxv |-> 0, key |-> None, color_map |-> EmptyMap]

\* a render thread that has run to its end
Finished == [NewThread EXCEPT !.pc = "finished"]

AppInit ==
    /\ rendering = FALSE
    /\ current_surface = None
    /\ render_lock = Free
    /\ threads = <<>>
    /\ mainpc = "run"

\* start_render() without the test of the flag
start_render_unguarded ==
    /\ rendering' = TRUE
    /\ threads' = Append(threads, NewThread)

\* start_render(), lines 146-153
start_render ==
    IF rendering
    THEN UNCHANGED <<rendering, threads>>
    ELSE /\ rendering' = TRUE
         /\ threads' = Append(threads, NewThread)

\* a lock that can be taken while it is held
CanAcquireAlways(lock) == TRUE

\* threading.Lock: `with self.render_lock` enters when the lock is free
CanAcquire(lock) == lock = Free

\* render_fractal() of thread t is at position pc
At(t, pc) == t \in DOMAIN threads /\ threads[t].pc = pc

\* generate(), line 165-166: read the parameter tuple
GenParams(t) ==
    /\ At(t, "gen_params")
    /\ UNCHANGED <<mainpc, nops, last, prev, calc>>
    /\ threads' = [threads EXCEPT ![t].pc = "gen_check",
                                  ![t].params = current_params]
    /\ UNCHANGED <<engineVars, paletteVars, rendering, current_surface, render_lock>>

\* line 169: the cache test
GenCheck(t) ==
    /\ At(t, "gen_check")
    /\ UNCHANGED <<mainpc, nops, last, prev, calc>>
    /\ threads' = [threads EXCEPT ![t].pc =
                      IF CacheHit(threads[t].params, last_params, cached_result)
                      THEN "gen_hit" ELSE "gen_bounds"]
    /\ UNCHANGED <<engineVars, paletteVars, rendering, current_surface, render_lock>>

\* line 170: return self.cached_result
GenHit(t) ==
    /\ At(t, "gen_hit")
    /\ UNCHANGED <<mainpc, nops, last, prev, calc>>
    /\ threads' = [threads EXCEPT ![t].pc = "col_tick", ![t].data = cached_result]
    /\ UNCHANGED <<engineVars, paletteVars, rendering, current_surface, render_lock>>

\* line 173: get_bounds()
GenBounds(t) ==
    /\ At(t, "gen_bounds")
    /\ UNCHANGED <<mainpc, nops, last, prev, calc>>
    /\ threads' = [threads EXCEPT ![t].pc = "gen_iter",
                      ![t].bounds = get_bounds(x_center, y_center, zoom, aspect_ratio)]
    /\ UNCHANGED <<engineVars, paletteVars, rendering, current_surface, render_lock>>

\* lines 176-177: the cap
GenIter(t) ==
    /\ At(t, "gen_iter")
    /\ UNCHANGED <<mainpc, nops, last, prev, calc>>
    /\ threads' = [threads EXCEPT ![t].pc = "gen_calc",
                                  ![t].iter = actual_iter(max_iter, zoom)]
    /\ UNCHANGED <<engineVars, paletteVars, rendering, current_surface, render_lock>>

\* lines 183-187: mandelbrot_calculation; an exception leaves generate() and
\* is caught at line 175
GenCalc(t) ==
    /\ At(t, "gen_calc")
    /\ UNCHANGED <<mainpc, nops, last, prev, calc>>
    /\ LET r == mandelbrot_calculation(height, width, threads[t].bounds,
                                       threads[t].iter)
       IN  threads' = [threads EXCEPT
                          ![t].pc = IF r.ok THEN "gen_store" ELSE "finally",
                          ![t].data = IF r.ok THEN r.grid ELSE None]
    /\ UNCHANGED <<engineVars, paletteVars, rendering, current_surface, render_lock>>

\* line 190: self.last_params = current_params
GenStoreParams(t) ==
    /\ At(t, "gen_store")
    /\ UNCHANGED <<mainpc, nops, last, prev, calc>>
    /\ last_params' = threads[t].params
    /\ threads' = [threads EXCEPT ![t].pc = "gen_cache"]
    /\ UNCHANGED <<width, height, x_center, y_center, zoom, aspect_ratio, max_iter,
                   cached_result, render_count, total_pixels>>
    /\ UNCHANGED <<paletteVars, rendering, current_surface, render_lock>>

\* lines 191-204: self.cached_result = result.copy(), count, return
GenStoreResult(t) ==
    /\ At(t, "gen_cache")
    /\ UNCHANGED <<mainpc, nops, last, prev, calc>>
    /\ cached_result' = threads[t].data
    /\ render_count' = render_count + 1
    /\ threads' = [threads EXCEPT ![t].pc = "col_tick"]
    /\ UNCHANGED <<width, height, x_center, y_center, zoom, aspect_ratio, max_iter,
                   last_params, total_pixels>>
    /\ UNCHANGED <<paletteVars, rendering, current_surface, render_lock>>

\* apply_colors, lines 345-358: fractal_data.shape raises on None; else
\* the animation time advances and the unique values are listed
ColTick(t) ==
    /\ At(t, "col_tick")
    /\ UNCHANGED <<mainpc, nops, last, prev, calc>>
    /\ IF threads[t].data = None
       THEN /\ threads' = [threads EXCEPT ![t].pc = "finally"]
            /\ UNCHANGED animation_time
       ELSE /\ animation_time' = Tick(animation_time)
            /\ threads' = [threads EXCEPT ![t].pc = "col_key",
                              ![t].todo = Values(threads[t].data),
                              ![t].maxv = SetMax(Values(threads[t].data)),
                              ![t].color_map = EmptyMap]
    /\ UNCHANGED <<current_palette_index, current_palette, color_cache>>
    /\ UNCHANGED <<engineVars, rendering, current_surface, render_lock>>

\* where apply_colors goes once the value v has its colour
AfterValue(th, v, color) ==
    [th EXCEPT !.todo = @ \ {v},
               !.color_map = (v :> color) @@ @,
               !.key = None,
               !.pc = IF th.todo = {v} THEN "swap_acquire" ELSE "col_key"]

\* get_color, lines 297-301, for the next unique value: the key and the lookup
ColKey(t) ==
    /\ At(t, "col_key")
    /\ UNCHANGED <<mainpc, nops, last, prev, calc>>
    /\ LET v == SetMin(threads[t].todo)
           key == CacheKey(v, threads[t].maxv)
       IN  threads' = [threads EXCEPT ![t] =
               IF key \in DOMAIN color_cache
               THEN AfterValue(@, v, color_cache[key])
               ELSE [@ EXCEPT !.pc = "col_compute", !.key = key]]
    /\ UNCHANGED <<engineVars, paletteVars, rendering, current_surface, render_lock>>

\* get_color, lines 304-333: compute the colour and add it to the cache
ColCompute(t) ==
    /\ At(t, "col_compute")
    /\ UNCHANGED <<mainpc, nops, last, prev, calc>>
    /\ LET v == SetMin(threads[t].todo)
           color == ComputeColor(current_palette, v, threads[t].maxv, animation_time)
       IN  /\ color_cache' =
                  IF CacheHasRoom(color_cache)
                  THEN (threads[t].key :> color) @@ color_cache
                  ELSE color_cache
           /\ threads' = [threads EXCEPT ![t] = AfterValue(@, v, color)]
    /\ UNCHANGED <<current_palette_index, current_palette, animation_time>>
    /\ UNCHANGED <<engineVars, rendering, current_surface, render_lock>>

\* line 168: with self.render_lock
SwapAcquire(t) ==
    /\ At(t, "swap_acquire")
    /\ UNCHANGED <<mainpc, nops, last, prev, calc>>
    /\ CanAcquire(render_lock)
    /\ render_lock' = HeldBy(t)
    /\ threads' = [threads EXCEPT ![t].pc = "swap"]
    /\ UNCHANGED <<engineVars, paletteVars, rendering, current_surface>>

\* lines 169-171: the new surface replaces current_surface; the lock is released
Swap(t) ==
    /\ At(t, "swap")
    /\ UNCHANGED <<mainpc, nops, last, prev, calc>>
    /\ current_surface' = Bitmap(threads[t].data, threads[t].color_map)
    /\ render_lock' = Free
    /\ threads' = [threads EXCEPT ![t].pc = "finally"]
    /\ UNCHANGED <<engineVars, paletteVars, rendering>>

\* the end of render_fractal without the reset of the flag
FinallyKeepsFlag(t) ==
    /\ At(t, "finally")
    /\ UNCHANGED <<mainpc, nops, last, prev, calc>>
    /\ threads' = [threads EXCEPT ![t] = Finished]
    /\ UNCHANGED <<engineVars, paletteVars, current_surface, render_lock, rendering>>

\* lines 178-179: finally: self.rendering = False
Finally(t) ==
    /\ At(t, "finally")
    /\ UNCHANGED <<mainpc, nops, last, prev, calc>>
    /\ rendering' = FALSE
    /\ threads' = [threads EXCEPT ![t] = Finished]
    /\ UNCHANGED <<engineVars, paletteVars, current_surface, render_lock>>

\* run(), line 246: the first render
RunStart ==
    /\ mainpc = "run"
    /\ mainpc' = "events"
    /\ start_render
    /\ UNCHANGED <<engineVars, paletteVars, current_surface, render_lock, nops>>
    /\ UNCHANGED <<last, prev, calc>>

---------------------------------------------------------------------------
(* Spec: the engine driven by one caller, call after call *)

\* number of calls in a run
MaxOps == 3
\* largest pan step, in pixels
MaxPan == 1

\* the zoom factors tried: the mouse wheel's 1.2 and 1/1.2 (main.py:131),
\* and a large factor with its inverse
Factors ==
    { FNorm(12, -1), FDiv(One, FNorm(12, -1)),
      FNorm(1, 8), FDiv(One, FNorm(1, 8)) }

\* the step sizes tried for the iteration cap: the default 50, one far
\* beyond the range, and a negative one
IterDeltas == {50, 5000, -5000}

NoCall == [op |-> "init", args |-> <<>>, pre |-> <<>>, ret |-> None]

Init ==
    /\ EngineInit
    /\ PaletteInit
    /\ AppInit
    /\ last = NoCall
    /\ prev = NoCall
    /\ nops = 0
    /\ calc = NoCalc

Count ==
    /\ nops < MaxOps
    /\ nops' = nops + 1
    /\ prev' = last
    /\ UNCHANGED <<calc, paletteVars, appVars>>

DoGenerate == Count /\ Generate

DoZoom ==
    /\ Count
    /\ \E sx \in 0..width, sy \in 0..height, f \in Factors :
          /\ zoom_at_point(sx, sy, f)
          /\ last' = Call("zoom_at_point", <<sx, sy, f>>, None)

DoPan ==
    /\ Count
    /\ \E dx \in -MaxPan..MaxPan, dy \in -MaxPan..MaxPan :
          /\ pan(dx, dy)
          /\ last' = Call("pan", <<dx, dy>>, None)

DoReset ==
    /\ Count
    /\ reset_view
    /\ last' = Call("reset_view", <<>>, None)

DoResize ==
    /\ Count
    /\ \E w \in 1..MaxDim, h \in 1..MaxDim :
          /\ resize(w, h)
          /\ last' = Call("resize", <<w, h>>, None)

DoIncrease ==
    /\ Count
    /\ \E d \in IterDeltas :
          /\ increase_iterations(d)
          /\ last' = Call("increase_iterations", <<d>>, None)

DoDecrease ==
    /\ Count
    /\ \E d \in IterDeltas :
          /\ decrease_iterations(d)
          /\ last' = Call("decrease_iterations", <<d>>, None)

Next ==
    \/ DoGenerate
    \/ DoZoom
    \/ DoPan
    \/ DoReset
    \/ DoResize
    \/ DoIncrease
    \/ DoDecrease

Spec == Init /\ [][Next]_vars

---------------------------------------------------------------------------
(* SpecCalc *)

InitCalc ==
    /\ EngineInit
    /\ PaletteInit
    /\ AppInit
    /\ last = NoCall
    /\ prev = NoCall
    /\ nops = 0
    /\ CalcInit

NextCalc ==
    \/ CalcPixel
    \/ CalcLoop
    \/ CalcElse
    \/ CalcReturn

SpecCalc == InitCalc /\ [][NextCalc]_vars

---------------------------------------------------------------------------
(* SpecApp: the main loop of FractalApp and its render threads *)

\* number of input events handled in a run
MaxEvents == 2

\* the mouse drags tried, as (dx, dy) of the motion
Drags == { <<1, 0>>, <<0, -1>> }
\* the wheel turns tried: mouse position and factor (main.py:130-131)
Wheels == { <<0, 0, FNorm(12, -1)>>, <<1, 1, FDiv(One, FNorm(12, -1))>> }
\* the window sizes tried
Sizes == { <<MaxDim - 1, MaxDim - 1>>, <<1, MaxDim - 1>> }

InitApp ==
    /\ EngineInit
    /\ PaletteInit
    /\ AppInit
    /\ last = NoCall
    /\ prev = NoCall
    /\ nops = 0
    /\ calc = NoCalc

\* handle_events takes one event off the queue
Event ==
    /\ mainpc = "events"
    /\ nops < MaxEvents
    /\ nops' = nops + 1
    /\ UNCHANGED <<current_surface, render_lock, mainpc, last, prev, calc>>

\* K_SPACE, lines 91-94
EvReset == Event /\ reset_view /\ start_render /\ UNCHANGED paletteVars

\* K_c, lines 95-98
EvPalette == Event /\ next_palette /\ start_render /\ UNCHANGED engineVars

\* K_PLUS, lines 102-105
EvIncrease ==
    Event /\ increase_iterations(50) /\ start_render /\ UNCHANGED paletteVars

\* K_MINUS, lines 106-109
EvDecrease ==
    Event /\ decrease_iterations(50) /\ start_render /\ UNCHANGED paletteVars

\* MOUSEMOTION while dragging, lines 120-126
EvDrag ==
    /\ Event
    /\ \E d \in Drags : pan(-d[1], -d[2])
    /\ start_render
    /\ UNCHANGED paletteVars

\* MOUSEWHEEL, lines 128-137
EvWheel ==
    /\ Event
    /\ \E w \in Wheels : zoom_at_point(w[1], w[2], w[3])
    /\ start_render
    /\ UNCHANGED paletteVars

\* VIDEORESIZE, lines 139-144
EvResize ==
    /\ Event
    /\ \E sz \in Sizes : resize(sz[1], sz[2])
    /\ start_render
    /\ UNCHANGED paletteVars

\* run(), line 256: with self.render_lock
MainAcquire ==
    /\ mainpc = "events"
    /\ CanAcquire(render_lock)
    /\ render_lock' = HeldByMain
    /\ mainpc' = "blit"
    /\ UNCHANGED <<engineVars, paletteVars, rendering, current_surface, threads, nops>>
    /\ UNCHANGED <<last, prev, calc>>

\* lines 257-258: the surface is read and drawn; the lock is released
MainBlit ==
    /\ mainpc = "blit"
    /\ render_lock' = Free
    /\ mainpc' = "events"
    /\ UNCHANGED <<engineVars, paletteVars, rendering, current_surface, threads, nops>>
    /\ UNCHANGED <<last, prev, calc>>

NextApp ==
    \/ RunStart
    \/ EvReset
    \/ EvPalette
    \/ EvIncrease
    \/ EvDecrease
    \/ EvDrag
    \/ EvWheel
    \/ EvResize
    \/ MainAcquire
    \/ MainBlit
    \/ \E t \in DOMAIN threads : GenParams(t)
    \/ \E t \in DOMAIN threads : GenCheck(t)
    \/ \E t \in DOMAIN threads : GenHit(t)
    \/ \E t \in DOMAIN threads : GenBounds(t)
    \/ \E t \in DOMAIN threads : GenIter(t)
    \/ \E t \in DOMAIN threads : GenCalc(t)
    \/ \E t \in DOMAIN threads : GenStoreParams(t)
    \/ \E t \in DOMAIN threads : GenStoreResult(t)
    \/ \E t \in DOMAIN threads : ColTick(t)
    \/ \E t \in DOMAIN threads : ColKey(t)
    \/ \E t \in DOMAIN threads : ColCompute(t)
    \/ \E t \in DOMAIN threads : SwapAcquire(t)
    \/ \E t \in DOMAIN threads : Swap(t)
    \/ \E t \in DOMAIN threads : Finally(t)

SpecApp == InitApp /\ [][NextApp]_vars

\* a step of render thread t that waits for nothing
RenderStep(t) ==
    \/ GenParams(t)
    \/ GenCheck(t)
    \/ GenHit(t)
    \/ GenBounds(t)
    \/ GenIter(t)
    \/ GenCalc(t)
    \/ GenStoreParams(t)
    \/ GenStoreResult(t)
    \/ ColTick(t)
    \/ ColKey(t)
    \/ ColCompute(t)
    \/ Swap(t)
    \/ Finally(t)

\* the scheduling of the application: the main loop keeps running (run(),
\* lines 248-264), a started render thread keeps running, and a thread that
\* waits for render_lock gets it, since the main loop holds the lock only for
\* the blit and sleeps in clock.tick(60) with the lock free. Nothing obliges
\* the user to send an event.
AppFairness ==
    /\ WF_vars(RunStart)
    /\ WF_vars(MainAcquire)
    /\ WF_vars(MainBlit)
    /\ WF_vars(\E t \in DOMAIN threads : RenderStep(t))
    /\ SF_vars(\E t \in DOMAIN threads : SwapAcquire(t))

SpecAppFair == InitApp /\ [][NextApp]_vars /\ AppFairness

---------------------------------------------------------------------------
(* SpecPalette: the ColorPalette driven by one caller, call after call *)

\* number of calls in a run
MaxPaletteOps == 4
\* entries short of capacity in the cache a run may start from
CacheSlack == 2

\* a cache left by get_color(i, max_max_iter) for i = 1..n on a new palette
Prefilled(n) ==
    [k \in { <<i, max_max_iter, 0, 0>> : i \in 1..n } |->
        ComputeColor(palettes[1], k[1], max_max_iter, 0)]

\* the arguments of get_color tried: a pixel outside the set and a pixel of it
ColorArgs ==
    { <<1, max_max_iter>>, <<max_max_iter + 1, max_max_iter>>,
      <<1, 2 * max_max_iter>>, <<max_max_iter + 1, 2 * max_max_iter>> }

\* the grids given to apply_colors
ColorGrids ==
    { [p \in Pixels(1, 3) |-> p[2] + 1],
      [p \in Pixels(1, 3) |-> 7] }

InitPalette ==
    /\ EngineInit
    /\ AppInit
    /\ current_palette_index = 0
    /\ current_palette = palettes[1]
    /\ animation_time = 0
    /\ color_cache \in {EmptyMap, Prefilled(cache_size - CacheSlack)}
    /\ last = NoCall
    /\ prev = NoCall
    /\ nops = 0
    /\ calc = NoCalc

PaletteCount ==
    /\ nops < MaxPaletteOps
    /\ nops' = nops + 1
    /\ prev' = last
    /\ UNCHANGED <<engineVars, appVars, calc>>

PalGetColor == PaletteCount /\ \E a \in ColorArgs : get_color(a[1], a[2])

PalApplyColors == PaletteCount /\ \E g \in ColorGrids : apply_colors(g)

PalNextPalette ==
    /\ PaletteCount
    /\ next_palette
    /\ last' = Call("next_palette", <<>>, None)

NextPalette ==
    \/ PalGetColor
    \/ PalApplyColors
    \/ PalNextPalette

SpecPalette == InitPalette /\ [][NextPalette]_vars

---------------------------------------------------------------------------
(* What the calls of a run establish (Spec) *)

\* the last two calls were both generate()
TwoGenerates == last.op = "generate" /\ prev.op = "generate"

\* a generate() that starts in the snapshot state finds its cache valid
CacheValid(pre) == pre.params = pre.last_params /\ pre.cached

FInRange(z) == ~FLess(z, min_zoom) /\ ~FGreater(z, max_zoom)

\* C2: zoom stays in [0.1, 1e15] whatever is called, and a zoom_at_point
\* whose product leaves the range sets the nearest limit
C2_ZoomInRange ==
    /\ FInRange(zoom)
    /\ last.op = "zoom_at_point" =>
          LET product == FMul(last.pre.zoom, last.args[3])
          IN  /\ FGreater(product, max_zoom) => zoom = max_zoom
              /\ FLess(product, min_zoom) => zoom = min_zoom
              /\ FInRange(product) => zoom = product

\* a zoom_at_point whose product went beyond 1e15 has been clamped
C2_Witness ==
    /\ last.op = "zoom_at_point"
    /\ FGreater(FMul(last.pre.zoom, last.args[3]), max_zoom)
    /\ zoom = max_zoom

\* C3: max_iter stays in [min_iter, max_max_iter] whatever integer step
\* increase_iterations and decrease_iterations are given
C3_IterCap == min_iter <= max_iter /\ max_iter <= max_max_iter

\* largest error, in units of the last mantissa digit, for two floats to
\* count as equal within tolerance
TolUlps == 4

\* |a - b| <= TolUlps / Mant * a: equality of floats up to rounding.  The
\* tolerance of 1e-9 on 53 bit floats is millions of units in the last
\* place; here it is TolUlps of them.
FClose(a, b) ==
    LET hi == IF a.e >= b.e THEN a ELSE b
        lo == IF a.e >= b.e THEN b ELSE a
        d  == hi.e - lo.e
    IN  /\ d <= 1
        /\ Abs(hi.m * Pow10(d) - lo.m) * Mant <= TolUlps * hi.m * Pow10(d)

\* the last two calls were zoom_at_point(x, y, k) and zoom_at_point(x, y, 1/k)
\* and neither product left [0.1, 1e15]
ZoomRoundTrip ==
    /\ last.op = "zoom_at_point"
    /\ prev.op = "zoom_at_point"
    /\ last.args[1] = prev.args[1]
    /\ last.args[2] = prev.args[2]
    /\ last.args[3] = FDiv(One, prev.args[3])
    /\ FInRange(FMul(prev.pre.zoom, prev.args[3]))
    /\ FInRange(FMul(last.pre.zoom, last.args[3]))

\* C5 as claimed: the round trip restores zoom and the centre
C5_Original ==
    ZoomRoundTrip =>
        /\ FClose(zoom, prev.pre.zoom)
        /\ x_center = prev.pre.x_center
        /\ y_center = prev.pre.y_center

\* the screen point is the middle of the window
AtWindowCentre(sx, sy) == 2 * sx = width /\ 2 * sy = height

\* C5: the round trip restores zoom within tolerance; it restores the
\* centre when (x, y) is the middle of the window, the one screen point
\* that zoom_at_point maps to the centre itself
C5_RoundTrip ==
    ZoomRoundTrip =>
        /\ FClose(zoom, prev.pre.zoom)
        /\ AtWindowCentre(last.args[1], last.args[2]) =>
              /\ x_center = prev.pre.x_center
              /\ y_center = prev.pre.y_center

\* a round trip about the middle of the window, away from the start view
C5_Witness ==
    /\ ZoomRoundTrip
    /\ AtWindowCentre(last.args[1], last.args[2])
    /\ prev.pre.zoom # last.pre.zoom
    /\ zoom # last.pre.zoom

\* the last call was a generate() that returned a grid
Generated == last.op = "generate" /\ last.ret.ok

\* how the loop of pixel p ended in the render of the current view at cap
ExitOf(p, cap) ==
    PixelLoop(LoopStart,
              PixelC(height, width,
                     get_bounds(x_center, y_center, zoom, aspect_ratio), p),
              cap).exit

\* the grid holds `sentinel` where the loop run to `cap` did not escape and
\* less than `sentinel` where it did
SentinelIs(grid, cap, sentinel) ==
    \A p \in Pixels(height, width) :
        IF ExitOf(p, cap) = "escape"
        THEN grid[p] < sentinel
        ELSE grid[p] = sentinel

\* C6 as claimed: in a grid generate() returns, a pixel that did not escape
\* holds the engine's max_iter and an escaped pixel less than max_iter
C6_Original ==
    Generated =>
        SentinelIs(last.ret.grid, Min(max_iter, adaptive_iterations(zoom)),
                   max_iter)

\* C6: in a grid generate() returns, a pixel that did not escape holds
\* min(max_iter, adaptive_iterations(zoom)), the cap the render ran with,
\* and an escaped pixel holds less than that, hence less than max_iter
C6_Sentinel ==
    Generated =>
        /\ SentinelIs(last.ret.grid, Min(max_iter, adaptive_iterations(zoom)),
                      Min(max_iter, adaptive_iterations(zoom)))
        /\ \A p \in Pixels(height, width) :
              ExitOf(p, Min(max_iter, adaptive_iterations(zoom))) = "escape"
                  => last.ret.grid[p] < max_iter

\* a returned grid with a pixel in the set and an escaped one, rendered with
\* a cap below max_iter
C6_Witness ==
    /\ Generated
    /\ adaptive_iterations(zoom) < max_iter
    /\ \E p, q \in Pixels(height, width) :
          /\ ExitOf(p, adaptive_iterations(zoom)) = "escape"
          /\ ExitOf(q, adaptive_iterations(zoom)) # "escape"
          /\ last.ret.grid[q] = adaptive_iterations(zoom)

---------------------------------------------------------------------------
(* What one run of mandelbrot_calculation establishes (SpecCalc) *)

\* the pixels whose loop has ended
CalcDone == { p \in DOMAIN calc.result : calc.exit[p] # "none" }

\* C4: every entry written is an integer in [0, max_iter]; it is max_iter
\* exactly when the loop ran out or took the periodicity shortcut, and else
\* the index n of the pass that found |z| > 2; the grid returned is the one
\* these loops write
C4_GridRange ==
    calc.pc # "off" =>
        /\ \A p \in CalcDone :
              /\ calc.result[p] \in 0..calc.max_iter
              /\ calc.result[p] = calc.max_iter
                    <=> calc.exit[p] \in {"else", "period"}
        /\ (calc.pc = "pixel" /\ calc.p \in CalcDone
                /\ calc.exit[calc.p] = "escape") =>
              /\ calc.result[calc.p] = calc.n
              /\ Escaped(calc.z)
        /\ (calc.pc = "pixel" /\ calc.p \in CalcDone
                /\ calc.exit[calc.p] = "period") =>
              calc.n > PeriodAfter /\ AbsTiny(calc.z)
        /\ calc.pc = "done" =>
              calc.result = mandelbrot_calculation(calc.height, calc.width,
                                calc.bounds, calc.max_iter).grid

\* a finished grid with an escaped pixel, one that ran out of iterations and
\* one that took the periodicity shortcut
C4_Witness ==
    /\ calc.pc = "done"
    /\ \E p, q, r \in DOMAIN calc.result :
          /\ calc.exit[p] = "escape" /\ calc.result[p] > 0
          /\ calc.exit[q] = "else"
          /\ calc.exit[r] = "period"

FarPixels ==
    { p \in DOMAIN calc.result :
        Escaped(PixelC(calc.height, calc.width, calc.bounds, p)) }

\* C14 as stated: for every max_iter >= 1 a pixel whose plane coordinate c
\* has |c| > 2 receives the grid value 0.
C14_Original ==
    (calc.pc = "done" /\ calc.max_iter >= 1) =>
        \A p \in FarPixels : calc.result[p] = 0

\* C14: for every max_iter >= 1 a pixel whose plane coordinate c has |c| > 2
\* receives the grid value 1: the pass n = 0 tests z = 0 and sets z = c, and
\* the pass n = 1 finds |z| > 2; with max_iter = 1 there is no pass n = 1 and
\* the else clause writes max_iter, which is 1 as well.
C14_EscapeAtOne ==
    (calc.pc = "done" /\ calc.max_iter >= 1) =>
        \A p \in FarPixels :
            /\ calc.result[p] = 1
            /\ calc.exit[p] = IF calc.max_iter >= 2 THEN "escape" ELSE "else"

\* C14 witness: a finished grid over [2, 3] x [2, 3] whose first pixel, at
\* c = (2, 2), escaped
C14_Witness ==
    /\ calc.pc = "done"
    /\ calc.max_iter >= 2
    /\ PixelC(calc.height, calc.width, calc.bounds, <<0, 0>>)
          = [re |-> 2 * Scale, im |-> 2 * Scale]
    /\ calc.exit[<<0, 0>>] = "escape"

---------------------------------------------------------------------------
(* Claims about SpecApp *)

\* the grid generate() returns for a parameter tuple read at line 165
GridOfParams(p) ==
    mandelbrot_calculation(p[5], p[4],
        get_bounds(p[1], p[2], p[3], AspectRatio(p[4], p[5])),
        actual_iter(p[6], p[3])).grid

\* the render threads whose render_fractal body has not ended
InFlight == { t \in DOMAIN threads : threads[t].pc # "finished" }

\* C7: a command issued on the event thread while a render is in flight does
\* not affect that render: the grid the in-flight generate() produced is the
\* grid of the parameters it read when it started.
C7_RenderIsolated ==
    \A t \in InFlight :
        threads[t].data # None => threads[t].data = GridOfParams(threads[t].params)

\* one body at most, and the flag `rendering` is set exactly while it runs
C8_AtMostOne ==
    /\ Cardinality(InFlight) <= 1
    /\ rendering <=> InFlight # {}

\* no thread is removed, a render ends only from its `finally`, and a step
\* of handle_events leaves every thread as it is and starts none while
\* `rendering` is set
C8_Step ==
    /\ \A t \in DOMAIN threads :
          /\ t \in DOMAIN threads'
          /\ threads'[t].pc = "finished" => threads[t].pc \in {"finally", "finished"}
    /\ nops' # nops =>
          /\ \A t \in DOMAIN threads : threads'[t] = threads[t]
          /\ rendering => threads' = threads /\ rendering'

\* C8: at most one render_fractal body runs at any moment, a request made
\* while a render runs starts no thread and queues nothing, and a render in
\* flight is never cancelled: it ends only by reaching the end of its body.
C8_SingleRender == [](C8_AtMostOne) /\ [][C8_Step]_vars

\* C8 witness: both events of the run arrived while the first render was in
\* flight and no second thread exists
C8_Witness ==
    /\ nops = MaxEvents
    /\ Len(threads) = 1
    /\ threads[1].pc = "swap"

\* a bitmap with a colour at every pixel of a whole grid
CompleteBitmap(s) ==
    \E h \in 1..MaxDim, w \in 1..MaxDim :
        /\ DOMAIN s = Pixels(h, w)
        /\ \A p \in Pixels(h, w) : s[p] = Black \/ s[p].palette \in Values(palettes)

\* the lock is held wherever the surface is written or read, never by both,
\* and the surface is absent or complete
C9_Exclusive ==
    /\ mainpc = "blit" => render_lock = HeldByMain
    /\ \A t \in DOMAIN threads : threads[t].pc = "swap" => render_lock = HeldBy(t)
    /\ ~(mainpc = "blit" /\ \E t \in DOMAIN threads : threads[t].pc = "swap")
    /\ current_surface = None \/ CompleteBitmap(current_surface)

\* the surface stays as it is while the display loop reads it, and changes
\* only in a step of a render thread that holds the lock
C9_Step ==
    /\ mainpc = "blit" => current_surface' = current_surface
    /\ current_surface' # current_surface =>
          \E t \in DOMAIN threads : render_lock = HeldBy(t)

\* C9: the render thread replaces current_surface only while it holds
\* render_lock, the display loop reads it only while it holds the lock, the two
\* never hold it together, the surface does not change while the display loop
\* reads it, and what is read is always a complete bitmap.
C9_Handoff == [](C9_Exclusive) /\ [][C9_Step]_vars

\* C9 witness: the display loop draws a bitmap while a second render waits
\* for the lock to replace it
C9_Witness ==
    /\ mainpc = "blit"
    /\ current_surface # None
    /\ \E t \in DOMAIN threads : threads[t].pc = "swap_acquire"

\* C10: in every reachable state every entry of color_cache has the current
\* palette index in its key and holds a colour computed by the current palette
\* (black for a point of the set).
C10_CacheOfCurrentPalette ==
    \A k \in DOMAIN color_cache :
        /\ k[3] = current_palette_index
        /\ color_cache[k] = Black \/ color_cache[k].palette = current_palette

---------------------------------------------------------------------------
(* SpecAdaptive: adaptive_iterations called twice on a new engine *)

\* the zooms tried: d * 10^x for the digits d = 1..9 over the decades of the
\* range [0.1, 1e15] of zoom_at_point, and 1e15 itself
ZoomSamples ==
    { FNorm(d, x) : d \in 1..9, x \in -1..14 } \cup { max_zoom }

InitAdaptive ==
    /\ EngineInit
    /\ PaletteInit
    /\ AppInit
    /\ last = NoCall
    /\ prev = NoCall
    /\ nops = 0
    /\ calc = NoCalc

\* adaptive_iterations(zm); a run makes two calls
AdaptiveCall ==
    /\ prev = NoCall
    /\ \E zm \in ZoomSamples :
          last' = Call("adaptive_iterations", <<zm>>, adaptive_iterations(zm))
    /\ prev' = last
    /\ nops' = nops + 1
    /\ UNCHANGED <<engineVars, paletteVars, appVars, calc>>

NextAdaptive == AdaptiveCall

SpecAdaptive == InitAdaptive /\ [][NextAdaptive]_vars

---------------------------------------------------------------------------
(* SpecColor: one call of a palette function, or of get_color on a miss, in
   a palette state that next_palette and apply_colors calls lead to *)

\* t runs over 0, 1/TSteps, ..., 1
TSteps == 10
\* the largest max_iterations given to get_color
MaxColorCap == 20

\* the values animation_time takes: 0, 0.02, ..., 6.28
AnimationTimes == { animation_speed * k : k \in 0..(TwoPi \div animation_speed) }
\* the intensities tried: 0, 0.5, 1
Intensities == { 0, Scale \div 2, Scale }
\* the values of max_iterations tried
ColorCaps == { 1, 7, MaxColorCap }

InitColor ==
    /\ EngineInit
    /\ AppInit
    /\ current_palette_index \in 0..(Len(palettes) - 1)
    /\ current_palette = palettes[current_palette_index + 1]
    /\ animation_time \in AnimationTimes
    /\ color_cache = EmptyMap
    /\ last = NoCall
    /\ prev = NoCall
    /\ nops = 0
    /\ calc = NoCalc

ColorCount ==
    /\ nops = 0
    /\ nops' = 1
    /\ UNCHANGED <<engineVars, paletteVars, appVars, calc, prev>>

\* the current palette's function, called with t and intensity
ColorFuncCall ==
    /\ ColorCount
    /\ \E j \in 0..TSteps, intensity \in Intensities :
          LET t == (j * Scale) \div TSteps
          IN  last' = Call("color_func", <<t, intensity>>,
                           color_func(current_palette, t, intensity, animation_time))

\* get_color(iterations, max_iterations) on a miss
GetColorCall ==
    /\ ColorCount
    /\ \E cap \in ColorCaps : \E it \in 0..cap :
          last' = Call("get_color", <<it, cap>>,
                       ColorTriple(current_palette, it, cap, animation_time))

NextColor ==
    \/ ColorFuncCall
    \/ GetColorCall

SpecColor == InitColor /\ [][NextColor]_vars

\* C16: whenever last_params and cached_result are both set, cached_result
\* is the grid computed for the viewport, size and max_iter recorded in
\* last_params; taken in the states where no render is in flight, so that the
\* two assignments of lines 190-191 are never seen half done.
C16_CacheCoherent ==
    (InFlight = {} /\ last_params # None /\ cached_result # None) =>
        cached_result = GridOfParams(last_params)

\* the bitmap s shows the grid `grid` in the colours of palette pal: black
\* at the largest value, and elsewhere a colour of pal for the pixel's value
SurfaceShows(s, grid, pal) ==
    /\ s # None
    /\ DOMAIN s = DOMAIN grid
    /\ \A p \in DOMAIN grid :
          IF grid[p] >= SetMax(Values(grid)) THEN s[p] = Black
          ELSE s[p] # Black /\ s[p].palette = pal /\ s[p].iterations = grid[p]

\* current_surface shows the engine's present view in the present palette
LatestShown ==
    SurfaceShows(current_surface, GridOfParams(current_params), current_palette)

\* the window has more than one pixel on each axis
ProperSize == width > 1 /\ height > 1

\* C17: once the user has stopped sending commands, with the render thread
\* scheduled fairly, current_surface eventually shows the engine's final
\* centre, zoom, size and max_iter in the final palette, and stays so (asked
\* only of the runs in which the window never has a one pixel axis).
C17_EventuallyLatest == []ProperSize => <>[]LatestShown

\* a render that ends without reaching the swap leaves the surface as it
\* was, and an event that finds the flag clear starts a render
C18_Step ==
    /\ \A t \in DOMAIN threads :
          (threads[t].pc \notin {"swap", "finally"} /\ threads'[t].pc = "finally")
              => current_surface' = current_surface
    /\ (nops' # nops /\ ~rendering) =>
          rendering' /\ Len(threads') = Len(threads) + 1

\* C18: every render started sets rendering back to False, also when
\* generate() or apply_colors() raises; a render that fails leaves
\* current_surface as it was; and a start_render made after the flag is
\* clear is accepted.
C18_FlagReleased == (rendering ~> ~rendering) /\ [][C18_Step]_vars

\* C18 witness: the first render drew a bitmap, a second failed on a one
\* pixel axis and released the flag, and a third was accepted and has failed
\* too, with the first bitmap still in place
C18_Witness ==
    /\ Len(threads) = 3
    /\ threads[2].pc = "finished"
    /\ threads[3].pc = "finally"
    /\ threads[3].data = None
    /\ (width = 1 \/ height = 1)
    /\ current_surface # None

---------------------------------------------------------------------------
(* Claims about SpecPalette *)

\* a step of the palette other than next_palette keeps every entry with its
\* colour and leaves a full table as it is; next_palette empties the table
C11_Step ==
    IF last'.op = "next_palette"
    THEN color_cache' = EmptyMap
    ELSE /\ \A k \in DOMAIN color_cache :
               k \in DOMAIN color_cache' /\ color_cache'[k] = color_cache[k]
         /\ Cardinality(DOMAIN color_cache) >= cache_size =>
               color_cache' = color_cache

\* C11: color_cache never holds more than cache_size entries; a miss inserts
\* only below capacity, no entry is removed or overwritten except by the full
\* clear of next_palette, and a full table is left unchanged by every miss.
C11_CacheBounded ==
    [](Cardinality(DOMAIN color_cache) <= cache_size) /\ [][C11_Step]_vars

\* C11 witness: the table is full and the last call was a get_color whose key
\* missed and was not absorbed
C11_Witness ==
    /\ Cardinality(DOMAIN color_cache) = cache_size
    /\ last.op = "get_color"
    /\ CacheKey(last.args[1], last.args[2]) \notin DOMAIN color_cache

---------------------------------------------------------------------------
(* Claims about SpecColor *)

\* C12: each of the three channels returned by a palette function, for t in
\* {0, 0.1, ..., 1}, intensity in {0, 0.5, 1} and every animation time, and
\* each channel of a triple computed by get_color, is an integer in [0, 255].
C12_ChannelBounds ==
    last.op \in {"color_func", "get_color"} =>
        /\ Len(last.ret) = 3
        /\ \A c \in 1..3 : last.ret[c] \in 0..ChannelMax

\* C12 witness: ocean_color at t = 1 with a foam term that lifts blue above
\* 255 before the clamp
C12_Witness ==
    /\ last.op = "color_func"
    /\ current_palette = palettes[2]
    /\ last.args[1] = Scale
    /\ last.ret[3] = ChannelMax
    /\ 150 * Scale + (Scale - Frac(6, 10)) * 200
          + Sin(Angle(Scale, 16, animation_time, 5)) * 50 > (ChannelMax + 1) * Scale

---------------------------------------------------------------------------
(* Claims about SpecAdaptive *)

\* the cap returned lies in [min_iter, max_max_iter], and of two calls the one
\* with the larger zoom returns no smaller cap
CapInRangeAndMonotone ==
    /\ last.op = "adaptive_iterations" =>
          last.ret >= min_iter /\ last.ret <= max_max_iter
    /\ (prev.op = "adaptive_iterations" /\ last.op = "adaptive_iterations"
          /\ ~FGreater(prev.args[1], last.args[1])) =>
          prev.ret <= last.ret

\* C15 as stated: adaptive_iterations(1.0) returns exactly 50 = min_iter, and
\* the cap lies in [50, 2000] and is non-decreasing in zoom.
C15_Original ==
    /\ (last.op = "adaptive_iterations" /\ last.args[1] = One) =>
          last.ret = min_iter
    /\ CapInRangeAndMonotone

\* C15: adaptive_iterations(1.0) returns exactly 59 = int(50 + log10(2) * 30),
\* and for every zoom in [0.1, 1e15] the cap lies in [50, 2000] and is
\* non-decreasing in zoom.
C15_AdaptiveCap ==
    /\ (last.op = "adaptive_iterations" /\ last.args[1] = One) =>
          last.ret = min_iter + 9
    /\ CapInRangeAndMonotone

\* C15 witness: a call at zoom 0.1 followed by a call at zoom 1.0, with a
\* larger cap
C15_Witness ==
    /\ prev.op = "adaptive_iterations"
    /\ prev.args[1] = min_zoom
    /\ last.op = "adaptive_iterations"
    /\ last.args[1] = One
    /\ prev.ret < last.ret

=============================================================================
